---- MODULE Spec2Model ----
(***************************************************************************)
(* Customer feedback analysis: the analyze_feedback lambda, the            *)
(* get_analytics lambda and the unified handler, over one DynamoDB table   *)
(* and the Comprehend client.                                              *)
(*                                                                         *)
(* Conventions of the model                                                *)
(*  - a Python dict is a function with a set of strings as its domain; a   *)
(*    missing key is a key outside the domain (see Get);                   *)
(*  - a text is represented by the lengths of its three parts: the leading *)
(*    whitespace, the part from the first to the last non-whitespace       *)
(*    character, the trailing whitespace. len and strip are exact on it;   *)
(*  - a score is an integer count of ten-thousandths, tagged with its      *)
(*    Python type (float or Decimal); a percentage is an integer count of  *)
(*    hundredths. Division and rounding are exact (round half to even);    *)
(*  - a serialized string carries whether it parses and what it parses to; *)
(*  - a call that raises returns [raised |-> TRUE, ...].                   *)
(***************************************************************************)
EXTENDS Integers, Sequences, FiniteSets, TLC

VARIABLES
    store,      \* the DynamoDB table: items in scan order
    now,        \* the wall clock, in milliseconds
    handler,    \* the handler that served the last request ("none" at start)
    event,      \* the last request's event
    response,   \* the last request's response
    trace,      \* the steps and external calls of the last request, in order
    scan_limit, \* the Limit of the last request's scan (NoScan when none)
    world       \* what the environment did for the last request (see World)

vars == <<store, now, handler, event, response, trace, scan_limit, world>>

-----------------------------------------------------------------------------
(* Bounds of the model *)

MaxClock == 2
MaxStore == 1
MaxItems == 3
MaxCustomers == 12
MaxRepeats == 2

NoScan == 0 - 1

-----------------------------------------------------------------------------
(* Python values *)

EmptyDict == [k \in {} |-> 0]

\* dict.get(key, default)
Get(d, k, default) == IF k \in DOMAIN d THEN d[k] ELSE default

Min(a, b) == IF a <= b THEN a ELSE b

Float(v) == [num |-> "float", val |-> v]
Decimal(v) == [num |-> "Decimal", val |-> v]

\* a text with `lead` leading whitespace characters, `core` characters from
\* the first to the last non-whitespace one, `trail` trailing whitespace
Text(lead, core, trail) == [lead |-> lead, core |-> core, trail |-> trail]

\* len(text)
len(text) == text.lead + text.core + text.trail

\* text.strip()
strip(text) == Text(0, text.core, 0)

\* json.dumps(data): a serialized string that parses back to data
json_dumps(data) == [type |-> "str", wellformed |-> TRUE, decodes_to |-> data]

\* a string that is not a serialized JSON document
RawString(chars) == [type |-> "str", wellformed |-> FALSE, raw |-> chars]

\* json.loads(s)
json_loads(s) ==
    IF s.wellformed
    THEN [raised |-> FALSE, value |-> s.decodes_to]
    ELSE [raised |-> TRUE, error |-> "JSONDecodeError"]

\* isinstance(body, str)
IsStr(body) == "type" \in DOMAIN body /\ body.type = "str"

\* None, the body of an event that carries a null body
None == [type |-> "NoneType"]
IsNone(x) == "type" \in DOMAIN x /\ x.type = "NoneType"

Return(v) == [raised |-> FALSE, value |-> v]
Raise(e) == [raised |-> TRUE, error |-> e]

-----------------------------------------------------------------------------
(* Configuration *)

MAX_TEXT_LENGTH == 5000
MAX_KEY_PHRASES == 5
MAX_ENTITIES == 5
DEFAULT_LIMIT == 50
MAX_LIMIT == 1000

ALLOWED_ORIGINS == "*"

-----------------------------------------------------------------------------
(* Responses *)

CorsHeaders(origin) ==
    ("Content-Type" :> "application/json")
    @@ ("Access-Control-Allow-Origin" :> origin)
    @@ ("Access-Control-Allow-Headers" :>
            "Content-Type,X-Amz-Date,Authorization,X-Api-Key,X-Amz-Security-Token")
    @@ ("Access-Control-Allow-Methods" :> "GET,POST,PUT,DELETE,OPTIONS")

cors_response_errors_bare(status_code, body) ==
    [statusCode |-> status_code,
     headers |-> IF status_code = 200 THEN CorsHeaders(ALLOWED_ORIGINS)
                 ELSE ("Content-Type" :> "application/json"),
     body |-> body]

\* cors_response of both lambdas (the two definitions are the same text)
cors_response(status_code, body) ==
    [statusCode |-> status_code,
     headers |-> CorsHeaders(ALLOWED_ORIGINS),
     body |-> body]

success_response(data) == cors_response(200, json_dumps(data))

error_response(message, status_code) ==
    cors_response(status_code, json_dumps([error |-> message]))

\* the unified handler builds its responses from get_cors_headers()
get_cors_headers == CorsHeaders("*")

unified_success_response(data) ==
    [statusCode |-> 200, headers |-> get_cors_headers, body |-> json_dumps(data)]

unified_error_response(message, status_code) ==
    [statusCode |-> status_code, headers |-> get_cors_headers,
     body |-> json_dumps([error |-> message])]

\* f"{prefix}: {str(e)}"
Message(prefix, e) == [text |-> prefix, detail |-> e]

-----------------------------------------------------------------------------
(* Validator *)

validate_text_input_no_strip(text, max_length) ==
    IF len(text) = 0
    THEN [is_valid |-> FALSE, error_message |-> Message("Text cannot be empty", "")]
    ELSE IF len(text) > max_length
    THEN [is_valid |-> FALSE,
          error_message |-> Message("Text exceeds maximum length of max_length characters", "")]
    ELSE [is_valid |-> TRUE, error_message |-> Message("", "")]

\* comprehend_helper.validate_text_input(text, max_length); the lambda's
\* validate_text_input(text) is the same with max_length = MAX_TEXT_LENGTH
validate_text_input(text, max_length) ==
    IF len(text) = 0 \/ len(strip(text)) = 0
    THEN [is_valid |-> FALSE, error_message |-> Message("Text cannot be empty", "")]
    ELSE IF len(text) > max_length
    THEN [is_valid |-> FALSE,
          error_message |-> Message("Text exceeds maximum length of max_length characters", "")]
    ELSE [is_valid |-> TRUE, error_message |-> Message("", "")]

-----------------------------------------------------------------------------
(* Comprehend: the upstream responses of one request *)

Take_from_end(seq, n) == SubSeq(seq, Len(seq) - Min(n, Len(seq)) + 1, Len(seq))

\* seq[:n]
Take(seq, n) == SubSeq(seq, 1, Min(n, Len(seq)))

\* float(x)
float(x) == Float(x.val)

\* Decimal(str(x)), the parse_float of json.loads
to_decimal(x) == Decimal(x.val)

NlpCalls ==
    <<"detect_sentiment", "detect_key_phrases", "detect_entities",
      "detect_dominant_language">>

\* the steps of a request up to and including the upstream call that raises,
\* among the first n calls; all n of them when none raises
IssuedCalls(nlp, n) ==
    LET failing == {i \in 1..n : NlpCalls[i] = nlp.fails} IN
    IF failing = {} THEN SubSeq(NlpCalls, 1, n)
    ELSE SubSeq(NlpCalls, 1, CHOOSE i \in failing : TRUE)

NlpRaises(nlp, n) == \E i \in 1..n : NlpCalls[i] = nlp.fails

FeedbackId(t) == [prefix |-> "feedback_", ms |-> t]
isoformat(t) == [iso |-> t]

-----------------------------------------------------------------------------
(* The DynamoDB table *)

\* json.loads(json.dumps(feedback_data), parse_float=Decimal)
floats_to_decimal(data) ==
    [k \in DOMAIN data |->
        CASE k = "sentiment_scores" ->
               [d \in DOMAIN data[k] |-> to_decimal(data[k][d])]
          [] k \in {"key_phrases", "entities"} ->
               [i \in DOMAIN data[k] |->
                   [data[k][i] EXCEPT !.score = to_decimal(@)]]
          [] k = "language" -> [data[k] EXCEPT !.score = to_decimal(@)]
          [] OTHER -> data[k]]

\* decimal_to_float / decimal_default: a Decimal becomes a float
decimal_to_float(x) == Float(x.val)

\* json.loads(json.dumps(items, default=decimal_to_float))
decimals_to_float(items) ==
    [n \in DOMAIN items |->
        [k \in DOMAIN items[n] |->
            CASE k = "sentiment_scores" ->
                   [d \in DOMAIN items[n][k] |-> decimal_to_float(items[n][k][d])]
              [] k \in {"key_phrases", "entities"} ->
                   [i \in DOMAIN items[n][k] |->
                       [items[n][k][i] EXCEPT !.score = decimal_to_float(@)]]
              [] k = "language" ->
                   [items[n][k] EXCEPT !.score = decimal_to_float(@)]
              [] OTHER -> items[n][k]]]

\* table.put_item(Item=item): creates the item, or replaces the item that has
\* the same key (feedback_id)
put_item(st, item) ==
    IF \E i \in 1..Len(st) : st[i].feedback_id = item.feedback_id
    THEN [i \in 1..Len(st) |->
             IF st[i].feedback_id = item.feedback_id THEN item ELSE st[i]]
    ELSE Append(st, item)

\* table.scan(Limit=limit): at most limit items, in the table's order
scan(st, limit) == Take(st, limit)

-----------------------------------------------------------------------------
(* analyze_feedback lambda *)

\* the outcome of a handler: its response, its steps, the table after it and
\* the Limit of the scan it issued
Outcome(resp, steps, st, limit) ==
    [response |-> resp, trace |-> steps, store |-> st, scan_limit |-> limit]

analyze_parse_request_body(ev) ==
    LET body == Get(ev, "body", EmptyDict) IN
    IF IsStr(body) THEN json_loads(body) ELSE Return(body)

analyze_analyze_feedback_partial(feedback_text, customer_id, metadata, nlp, t) ==
    IF NlpRaises(nlp, 3) THEN Raise(nlp.fails)
    ELSE Return([feedback_id |-> FeedbackId(t),
                 customer_id |-> customer_id,
                 feedback_text |-> feedback_text,
                 timestamp |-> isoformat(t),
                 sentiment |-> nlp.sentiment_response.Sentiment,
                 language |-> [language_code |-> "en", score |-> Float(10000)],
                 metadata |-> metadata])

\* analyze_feedback(feedback_text, customer_id, metadata) with the upstream
\* responses nlp, at time t
analyze_analyze_feedback(feedback_text, customer_id, metadata, nlp, t) ==
    IF NlpRaises(nlp, 4) THEN Raise(nlp.fails)
    ELSE
    LET sentiment_response == nlp.sentiment_response
        languages == nlp.language_response.Languages
        sentiment_data ==
            [sentiment |-> sentiment_response.Sentiment,
             scores |->
                [positive |-> float(sentiment_response.SentimentScore.Positive),
                 negative |-> float(sentiment_response.SentimentScore.Negative),
                 neutral |-> float(sentiment_response.SentimentScore.Neutral),
                 mixed |-> float(sentiment_response.SentimentScore.Mixed)]]
        kps == Take(nlp.key_phrases_response.KeyPhrases, MAX_KEY_PHRASES)
        key_phrases ==
            [i \in 1..Len(kps) |->
                [text |-> kps[i].Text, score |-> float(kps[i].Score)]]
        ents == Take(nlp.entities_response.Entities, MAX_ENTITIES)
        entities ==
            [i \in 1..Len(ents) |->
                [text |-> ents[i].Text, type |-> ents[i].Type,
                 score |-> float(ents[i].Score)]]
        language ==
            [language_code |->
                IF Len(languages) > 0 THEN languages[1].LanguageCode ELSE "en",
             score |->
                IF Len(languages) > 0 THEN float(languages[1].Score)
                ELSE Float(10000)]
    IN Return([feedback_id |-> FeedbackId(t),
               customer_id |-> customer_id,
               feedback_text |-> feedback_text,
               timestamp |-> isoformat(t),
               sentiment |-> sentiment_data.sentiment,
               sentiment_scores |-> sentiment_data.scores,
               key_phrases |-> key_phrases,
               entities |-> entities,
               language |-> language,
               metadata |-> metadata])

store_feedback_propagates(feedback_data, put_ok, st) ==
    IF put_ok THEN Return(put_item(st, floats_to_decimal(feedback_data)))
    ELSE Raise("put_item")

\* store_feedback(feedback_data): an exception of put_item is caught and
\* logged, never raised
store_feedback(feedback_data, put_ok, st) ==
    IF put_ok THEN Return(put_item(st, floats_to_decimal(feedback_data)))
    ELSE Return(st)

\* the try block of lambda_handler of the analyze_feedback lambda (lines 50-75)
analyze_handle(ev, nlp, put_ok, st, t) ==
    LET parsed == analyze_parse_request_body(ev) IN
    IF parsed.raised
    THEN Outcome(error_response(Message("Internal server error", parsed.error), 500),
                 <<"parse_request_body">>, st, NoScan)
    ELSE IF IsNone(parsed.value)    \* None has no attribute get
    THEN Outcome(error_response(Message("Internal server error", "AttributeError"), 500),
                 <<"parse_request_body">>, st, NoScan)
    ELSE
    LET body == parsed.value
        feedback_text == Get(body, "feedback", Text(0, 0, 0))
        customer_id == Get(body, "customer_id", "anonymous")
        metadata == Get(body, "metadata", EmptyDict)
        valid == validate_text_input(feedback_text, MAX_TEXT_LENGTH)
        steps == <<"parse_request_body", "validate_text_input">>
    IN
    IF ~valid.is_valid
    THEN Outcome(error_response(valid.error_message, 400), steps, st, NoScan)
    ELSE
    LET analysis == analyze_analyze_feedback(feedback_text, customer_id, metadata, nlp, t)
        called == steps \o IssuedCalls(nlp, 4)
    IN
    IF analysis.raised
    THEN Outcome(error_response(Message("Internal server error", analysis.error), 500),
                 called, st, NoScan)
    ELSE
    LET stored == store_feedback(analysis.value, put_ok, st) IN
    IF stored.raised
    THEN Outcome(error_response(Message("Internal server error", stored.error), 500),
                 Append(called, "put_item"), st, NoScan)
    ELSE Outcome(success_response(analysis.value), Append(called, "put_item"),
                 stored.value, NoScan)

analyze_lambda_handler_no_preflight(ev, nlp, put_ok, st, t) ==
    analyze_handle(ev, nlp, put_ok, st, t)

\* lambda_handler(event, context) of the analyze_feedback lambda
analyze_lambda_handler(ev, nlp, put_ok, st, t) ==
    IF Get(ev, "httpMethod", "") = "OPTIONS"
    THEN Outcome(cors_response(200, RawString("")), <<>>, st, NoScan)
    ELSE analyze_handle(ev, nlp, put_ok, st, t)

-----------------------------------------------------------------------------
(* get_analytics lambda: the aggregation *)

TopCustomers == 10
RecentFeedback == 10

SentimentLabels == {"POSITIVE", "NEGATIVE", "NEUTRAL", "MIXED"}
ScoreKeys == {"positive", "negative", "neutral", "mixed"}

ZeroCounts == [POSITIVE |-> 0, NEGATIVE |-> 0, NEUTRAL |-> 0, MIXED |-> 0]
ZeroScores == [positive |-> 0, negative |-> 0, neutral |-> 0, mixed |-> 0]

round_down(num, den) == num \div den

\* round(num / den) to the nearest integer, a tie to the even one
round(num, den) ==
    LET q == num \div den
        r == num % den
    IN IF 2 * r < den THEN q
       ELSE IF 2 * r > den THEN q + 1
       ELSE IF q % 2 = 0 THEN q ELSE q + 1

ScoreOf_missing_is_half(scores, key) ==
    IF key \in DOMAIN scores THEN scores[key].val ELSE 5000

\* scores.get(key, 0)
ScoreOf(scores, key) == IF key \in DOMAIN scores THEN scores[key].val ELSE 0

\* customer_feedback_count[customer_id] = customer_feedback_count.get(customer_id, 0) + 1
\* on a dict that keeps its keys in insertion order
CountCustomer(counts, customer_id) ==
    IF \E i \in 1..Len(counts) : counts[i].customer_id = customer_id
    THEN [i \in 1..Len(counts) |->
             IF counts[i].customer_id = customer_id
             THEN [counts[i] EXCEPT !.feedback_count = @ + 1]
             ELSE counts[i]]
    ELSE Append(counts, [customer_id |-> customer_id, feedback_count |-> 1])

\* sentiment_counts[sentiment] = sentiment_counts.get(sentiment, 0) + 1
CountSentiment(counts, sentiment) ==
    IF sentiment \in DOMAIN counts
    THEN [counts EXCEPT ![sentiment] = @ + 1]
    ELSE counts @@ (sentiment :> 1)

AggregateItem_no_metadata_apart(acc, item) ==
    LET sentiment == Get(item, "sentiment", "NEUTRAL")
        scores == Get(item, "sentiment_scores", EmptyDict)
        category == IF "metadata" \in DOMAIN item
                    THEN Get(item.metadata, "category", "uncategorized")
                    ELSE "no metadata"
        seeded == IF category \in DOMAIN acc.category_sentiment
                  THEN acc.category_sentiment
                  ELSE acc.category_sentiment @@ (category :> ZeroCounts)
        customer_id == Get(item, "customer_id", "anonymous")
    IN
    IF sentiment \notin DOMAIN seeded[category]
    THEN [acc EXCEPT !.raised = TRUE]
    ELSE [raised |-> FALSE,
          sentiment_counts |-> CountSentiment(acc.sentiment_counts, sentiment),
          avg_scores |->
              [key \in ScoreKeys |-> acc.avg_scores[key] + ScoreOf(scores, key)],
          category_sentiment |->
              [seeded EXCEPT ![category][sentiment] = @ + 1],
          customer_feedback_count |->
              CountCustomer(acc.customer_feedback_count, customer_id)]

\* one iteration of the loop `for item in items` (lines 128-148)
AggregateItem(acc, item) ==
    LET sentiment == Get(item, "sentiment", "NEUTRAL")
        scores == Get(item, "sentiment_scores", EmptyDict)
        category == Get(Get(item, "metadata", EmptyDict), "category", "uncategorized")
        seeded == IF category \in DOMAIN acc.category_sentiment
                  THEN acc.category_sentiment
                  ELSE acc.category_sentiment @@ (category :> ZeroCounts)
        customer_id == Get(item, "customer_id", "anonymous")
    IN
    IF sentiment \notin DOMAIN seeded[category]
    THEN [acc EXCEPT !.raised = TRUE]     \* KeyError at line 144
    ELSE [raised |-> FALSE,
          sentiment_counts |-> CountSentiment(acc.sentiment_counts, sentiment),
          avg_scores |->
              [key \in ScoreKeys |-> acc.avg_scores[key] + ScoreOf(scores, key)],
          category_sentiment |->
              [seeded EXCEPT ![category][sentiment] = @ + 1],
          customer_feedback_count |->
              CountCustomer(acc.customer_feedback_count, customer_id)]

RECURSIVE AggregateFrom(_, _, _)
AggregateFrom(items, i, acc) ==
    IF i > Len(items) \/ acc.raised THEN acc
    ELSE AggregateFrom(items, i + 1, AggregateItem(acc, items[i]))

RECURSIVE SortedByCount_ties_latest_first(_)
SortedByCount_ties_latest_first(pairs) ==
    IF Len(pairs) = 0 THEN <<>>
    ELSE LET rest == SortedByCount_ties_latest_first(SubSeq(pairs, 1, Len(pairs) - 1))
             last == pairs[Len(pairs)]
             ahead == {i \in 1..Len(rest) : rest[i].feedback_count > last.feedback_count}
             k == Cardinality(ahead)
         IN SubSeq(rest, 1, k) \o <<last>> \o SubSeq(rest, k + 1, Len(rest))

\* sorted(pairs, key=lambda x: x[1], reverse=True): stable, by count descending
RECURSIVE SortedByCount(_)
SortedByCount(pairs) ==
    IF Len(pairs) = 0 THEN <<>>
    ELSE LET rest == SortedByCount(SubSeq(pairs, 1, Len(pairs) - 1))
             last == pairs[Len(pairs)]
             ahead == {i \in 1..Len(rest) : rest[i].feedback_count >= last.feedback_count}
             k == Cardinality(ahead)
         IN SubSeq(rest, 1, k) \o <<last>> \o SubSeq(rest, k + 1, Len(rest))

Percentages(sentiment_counts, total_feedback) ==
    IF total_feedback > 0
    THEN [sentiment \in DOMAIN sentiment_counts |->
             round(sentiment_counts[sentiment] * 10000, total_feedback)]
    ELSE EmptyDict

Averages_unguarded(avg_scores, total_feedback) ==
    IF total_feedback = 0 THEN Raise("ZeroDivisionError")
    ELSE Return([key \in ScoreKeys |-> round(avg_scores[key], total_feedback)])

\* lines 150-153: the averages are divided only when there are items
Averages(avg_scores, total_feedback) ==
    IF total_feedback > 0
    THEN Return([key \in ScoreKeys |-> round(avg_scores[key], total_feedback)])
    ELSE Return(avg_scores)

calculate_analytics_pops_metadata(items) ==
    LET total_feedback == Len(items)
        acc == AggregateFrom(items, 1,
                   [raised |-> FALSE,
                    sentiment_counts |-> ZeroCounts,
                    avg_scores |-> ZeroScores,
                    category_sentiment |-> EmptyDict,
                    customer_feedback_count |-> <<>>])
        averages == Averages(acc.avg_scores, total_feedback)
        popped == [i \in 1..Len(items) |->
                      [k \in DOMAIN items[i] \ {"metadata"} |-> items[i][k]]]
    IN
    IF acc.raised THEN Raise("KeyError")
    ELSE IF averages.raised THEN averages
    ELSE Return(
        [total_feedback |-> total_feedback,
         sentiment_distribution |-> acc.sentiment_counts,
         sentiment_percentages |-> Percentages(acc.sentiment_counts, total_feedback),
         average_sentiment_scores |-> averages.value,
         category_breakdown |-> acc.category_sentiment,
         top_customers |-> Take(SortedByCount(acc.customer_feedback_count), TopCustomers),
         recent_feedback |-> Take(popped, RecentFeedback)])

\* calculate_analytics(items)
calculate_analytics(items) ==
    LET total_feedback == Len(items)
        acc == AggregateFrom(items, 1,
                   [raised |-> FALSE,
                    sentiment_counts |-> ZeroCounts,
                    avg_scores |-> ZeroScores,
                    category_sentiment |-> EmptyDict,
                    customer_feedback_count |-> <<>>])
        averages == Averages(acc.avg_scores, total_feedback)
    IN
    IF acc.raised THEN Raise("KeyError")
    ELSE IF averages.raised THEN averages
    ELSE Return(
        [total_feedback |-> total_feedback,
         sentiment_distribution |-> acc.sentiment_counts,
         sentiment_percentages |-> Percentages(acc.sentiment_counts, total_feedback),
         average_sentiment_scores |-> averages.value,
         category_breakdown |-> acc.category_sentiment,
         top_customers |-> Take(SortedByCount(acc.customer_feedback_count), TopCustomers),
         recent_feedback |-> Take(items, RecentFeedback)])

\* get_empty_analytics()
get_empty_analytics(t) ==
    [total_feedback |-> 0,
     sentiment_distribution |-> ZeroCounts,
     sentiment_percentages |-> ZeroCounts,
     average_sentiment_scores |-> ZeroScores,
     category_breakdown |-> EmptyDict,
     top_customers |-> <<>>,
     recent_feedback |-> <<>>,
     timestamp |-> isoformat(t)]

get_analytics_propagates(limit, scan_ok, st, t) ==
    IF ~scan_ok THEN Raise("scan")
    ELSE
    LET items == decimals_to_float(scan(st, limit))
        analytics == calculate_analytics(items)
    IN IF analytics.raised THEN analytics
       ELSE Return(analytics.value @@
                   [timestamp |-> isoformat(t), total_retrieved |-> Len(items)])

\* get_analytics(limit): every exception of the scan and of the aggregation
\* is caught and replaced by the empty analytics
get_analytics(limit, scan_ok, st, t) ==
    IF ~scan_ok THEN Return(get_empty_analytics(t))
    ELSE
    LET items == decimals_to_float(scan(st, limit))
        analytics == calculate_analytics(items)
    IN IF analytics.raised THEN Return(get_empty_analytics(t))
       ELSE Return(analytics.value @@
                   [timestamp |-> isoformat(t), total_retrieved |-> Len(items)])

analytics_parse_request_body_raises(ev) ==
    LET body == Get(ev, "body", EmptyDict) IN
    IF IsStr(body) THEN json_loads(body) ELSE Return(body)

\* parse_request_body(event) of the get_analytics lambda: a string that does
\* not parse is an empty request
analytics_parse_request_body(ev) ==
    LET body == Get(ev, "body", EmptyDict) IN
    IF IsStr(body)
    THEN (IF json_loads(body).raised THEN Return(EmptyDict)
          ELSE Return(json_loads(body).value))
    ELSE Return(body)

\* lambda_handler(event, context) of the get_analytics lambda
analytics_lambda_handler(ev, scan_ok, st, t) ==
    IF Get(ev, "httpMethod", "") = "OPTIONS"
    THEN Outcome(cors_response(200, RawString("")), <<>>, st, NoScan)
    ELSE
    LET parsed == analytics_parse_request_body(ev) IN
    IF parsed.raised
    THEN Outcome(error_response(Message("Error retrieving analytics", parsed.error), 500),
                 <<"parse_request_body">>, st, NoScan)
    ELSE IF IsNone(parsed.value)    \* None has no attribute get
    THEN Outcome(error_response(Message("Error retrieving analytics", "AttributeError"), 500),
                 <<"parse_request_body">>, st, NoScan)
    ELSE
    LET body == parsed.value
        limit == Min(Get(body, "limit", DEFAULT_LIMIT), MAX_LIMIT)
        analytics == get_analytics(limit, scan_ok, st, t)
    IN IF analytics.raised
       THEN Outcome(error_response(Message("Error retrieving analytics", analytics.error), 500),
                    <<"parse_request_body", "scan">>, st, limit)
       ELSE Outcome(success_response(analytics.value),
                    <<"parse_request_body", "scan">>, st, limit)

-----------------------------------------------------------------------------
(* The unified handler (backend/lambda_function.py) *)

\* analyze_feedback(body) of the unified handler; an exception of an upstream
\* call is raised to lambda_handler
unified_analyze_feedback(body, nlp, put_ok, st, t) ==
    LET feedback_text == Get(body, "feedback", Text(0, 0, 0))
        customer_id == Get(body, "customer_id", "anonymous")
        metadata == Get(body, "metadata", EmptyDict)
        steps == <<"parse_request_body", "validate_text_input">>
    IN
    IF len(feedback_text) = 0 \/ len(strip(feedback_text)) = 0
    THEN Return(Outcome(unified_error_response(Message("Feedback text is required", ""), 400),
                        steps, st, NoScan))
    ELSE IF NlpRaises(nlp, 3)
    THEN [raised |-> TRUE, error |-> nlp.fails, trace |-> steps \o IssuedCalls(nlp, 3)]
    ELSE
    LET sentiment_response == nlp.sentiment_response
        kps == Take(nlp.key_phrases_response.KeyPhrases, 5)
        ents == Take(nlp.entities_response.Entities, 5)
        result ==
            [feedback_id |-> FeedbackId(t),
             customer_id |-> customer_id,
             feedback_text |-> feedback_text,
             timestamp |-> isoformat(t),
             sentiment |-> sentiment_response.Sentiment,
             sentiment_scores |->
                [positive |-> float(sentiment_response.SentimentScore.Positive),
                 negative |-> float(sentiment_response.SentimentScore.Negative),
                 neutral |-> float(sentiment_response.SentimentScore.Neutral),
                 mixed |-> float(sentiment_response.SentimentScore.Mixed)],
             key_phrases |->
                [i \in 1..Len(kps) |->
                    [text |-> kps[i].Text, score |-> float(kps[i].Score)]],
             entities |->
                [i \in 1..Len(ents) |->
                    [text |-> ents[i].Text, type |-> ents[i].Type,
                     score |-> float(ents[i].Score)]],
             metadata |-> metadata]
        stored == IF put_ok THEN put_item(st, floats_to_decimal(result)) ELSE st
    IN Return(Outcome(unified_success_response(result),
                      steps \o IssuedCalls(nlp, 3) \o <<"put_item">>, stored, NoScan))

\* the aggregation of the unified handler's get_analytics (lines 141-175)
RECURSIVE UnifiedAggregateFrom(_, _, _)
UnifiedAggregateFrom(items, i, acc) ==
    IF i > Len(items) THEN acc
    ELSE LET item == items[i]
             sentiment == Get(item, "sentiment", "NEUTRAL")
             scores == Get(item, "sentiment_scores", EmptyDict)
         IN UnifiedAggregateFrom(items, i + 1,
                [sentiment_counts |-> CountSentiment(acc.sentiment_counts, sentiment),
                 avg_scores |->
                     [key \in ScoreKeys |-> acc.avg_scores[key] + ScoreOf(scores, key)]])

\* get_analytics(body) of the unified handler; the averages are not rounded:
\* each is the exact quotient sum / n, kept as [sum, n]
unified_get_analytics(body, scan_ok, st, t) ==
    LET limit == Get(body, "limit", 50)
        steps == <<"parse_request_body", "scan">>
    IN
    IF ~scan_ok
    THEN Outcome(unified_success_response(
                    [total_feedback |-> 0,
                     sentiment_distribution |-> ZeroCounts,
                     average_sentiment_scores |-> ZeroScores,
                     recent_feedback |-> <<>>,
                     timestamp |-> isoformat(t)]),
                 steps, st, limit)
    ELSE
    LET items == decimals_to_float(scan(st, limit))
        total_feedback == Len(items)
        acc == UnifiedAggregateFrom(items, 1,
                   [sentiment_counts |-> ZeroCounts, avg_scores |-> ZeroScores])
    IN Outcome(unified_success_response(
                    [total_feedback |-> total_feedback,
                     sentiment_distribution |-> acc.sentiment_counts,
                     average_sentiment_scores |->
                         IF total_feedback > 0
                         THEN [key \in ScoreKeys |->
                                  [sum |-> acc.avg_scores[key], n |-> total_feedback]]
                         ELSE acc.avg_scores,
                     recent_feedback |-> Take(items, 10),
                     timestamp |-> isoformat(t)]),
               steps, st, limit)

\* lambda_handler(event, context) of the unified handler
unified_lambda_handler(ev, nlp, put_ok, scan_ok, st, t) ==
    IF Get(ev, "httpMethod", "") = "OPTIONS"
    THEN Outcome([statusCode |-> 200, headers |-> get_cors_headers,
                  body |-> RawString("")], <<>>, st, NoScan)
    ELSE
    LET parsed == IF IsStr(Get(ev, "body", None)) THEN json_loads(ev.body)
                  ELSE Return(Get(ev, "body", EmptyDict))
    IN
    IF parsed.raised
    THEN Outcome(unified_error_response(Message(parsed.error, ""), 500),
                 <<"parse_request_body">>, st, NoScan)
    ELSE IF IsNone(parsed.value)    \* None has no attribute get
    THEN Outcome(unified_error_response(Message("AttributeError", ""), 500),
                 <<"parse_request_body">>, st, NoScan)
    ELSE
    LET body == parsed.value
        operation == Get(body, "operation", "analyze_feedback")
    IN
    IF operation = "analyze_feedback"
    THEN LET done == unified_analyze_feedback(body, nlp, put_ok, st, t) IN
         IF done.raised
         THEN Outcome(unified_error_response(Message(done.error, ""), 500),
                      done.trace, st, NoScan)
         ELSE done.value
    ELSE IF operation = "get_analytics"
    THEN unified_get_analytics(body, scan_ok, st, t)
    ELSE Outcome(unified_error_response(Message("Invalid operation", ""), 400),
                 <<"parse_request_body">>, st, NoScan)

-----------------------------------------------------------------------------
(* The requests and the upstream answers the model draws from *)

TextEmpty == Text(0, 0, 0)
TextBlank == Text(3, 0, 0)
TextBlankLong == Text(MAX_TEXT_LENGTH + 1, 0, 0)
TextPadded == Text(1, 5, 1)
TextMax == Text(1, MAX_TEXT_LENGTH - 2, 1)
TextTooLong == Text(0, MAX_TEXT_LENGTH + 1, 0)
TextPaddedTooLong == Text(1, MAX_TEXT_LENGTH, 0)

Texts ==
    {TextEmpty, TextBlank, TextBlankLong, TextMax, TextTooLong, TextPaddedTooLong}

PayloadFull ==
    [feedback |-> TextPadded, customer_id |-> "A", metadata |-> [category |-> "product"]]

AnalyzePayloads == {PayloadFull, EmptyDict} \cup {[feedback |-> text] : text \in Texts}

Malformed == RawString("{not json")

Options ==
    {[httpMethod |-> "OPTIONS"],
     [httpMethod |-> "OPTIONS", body |-> PayloadFull],
     [httpMethod |-> "OPTIONS", body |-> Malformed]}

Post(bodies) == {[httpMethod |-> "POST", body |-> body] : body \in bodies}

AnalyzeEvents ==
    Options \cup {[httpMethod |-> "POST"]}
    \cup Post(AnalyzePayloads \cup {json_dumps(PayloadFull), Malformed, None})

AnalyticsPayloads ==
    {EmptyDict, [limit |-> 1], [limit |-> 2], [limit |-> MAX_LIMIT],
     [limit |-> MAX_LIMIT + 1]}

AnalyticsEvents ==
    Options \cup {[httpMethod |-> "POST"], [httpMethod |-> "GET", body |-> None]}
    \cup Post(AnalyticsPayloads \cup {json_dumps([limit |-> 1]), Malformed})

UnifiedPayloads ==
    {PayloadFull,
     [operation |-> "analyze_feedback", feedback |-> TextBlank],
     [operation |-> "analyze_feedback", feedback |-> TextTooLong],
     EmptyDict,
     [operation |-> "get_analytics"],
     [operation |-> "get_analytics", limit |-> 1],
     [operation |-> "get_analytics", limit |-> MAX_LIMIT + 1],
     [operation |-> "delete_all"]}

UnifiedEvents ==
    Options \cup {[httpMethod |-> "POST"]}
    \cup Post(UnifiedPayloads \cup {json_dumps(PayloadFull), Malformed, None})

Phrase(n) == [Text |-> n, Score |-> Float(9000 + n)]
Entity(n) == [Text |-> n, Type |-> "ORGANIZATION", Score |-> Float(8000 + n)]

\* upstream lists are in the order of the upstream service, not sorted
Phrases(k) == SubSeq(<<Phrase(3), Phrase(1), Phrase(6), Phrase(2), Phrase(5), Phrase(4)>>, 1, k)
Entities(k) == SubSeq(<<Entity(2), Entity(6), Entity(1), Entity(5), Entity(3), Entity(4)>>, 1, k)

SentimentScore(p, n, u, m) ==
    [Positive |-> Float(p), Negative |-> Float(n), Neutral |-> Float(u), Mixed |-> Float(m)]

Upstream(sentiment, score, k, e, languages) ==
    [sentiment_response |-> [Sentiment |-> sentiment, SentimentScore |-> score],
     key_phrases_response |-> [KeyPhrases |-> Phrases(k)],
     entities_response |-> [Entities |-> Entities(e)],
     language_response |-> [Languages |-> languages]]

Upstreams ==
    {Upstream("POSITIVE", SentimentScore(9500, 100, 300, 100), 6, 0,
              <<[LanguageCode |-> "fr", Score |-> Float(9900)]>>),
     Upstream("SURPRISED", SentimentScore(2500, 2500, 2500, 2500), 2, 6, <<>>)}

AnyUpstream == CHOOSE up \in Upstreams : TRUE

\* what the environment does for one request: Comprehend answers every call
\* or one call raises, put_item succeeds or raises, the scan succeeds or raises
World(nlp, put_ok, scan_ok) == [nlp |-> nlp, put_ok |-> put_ok, scan_ok |-> scan_ok]

CalmWorld == World([fails |-> "none"] @@ AnyUpstream, TRUE, TRUE)

AnalyzeWorlds ==
    {World([fails |-> "none"] @@ up, put_ok, TRUE) : up \in Upstreams, put_ok \in BOOLEAN}
    \cup {World([fails |-> NlpCalls[i]] @@ AnyUpstream, TRUE, TRUE) : i \in 1..4}

ScanWorlds == {World(CalmWorld.nlp, TRUE, scan_ok) : scan_ok \in BOOLEAN}

\* the environments that differ for a request whose steps, when nothing
\* fails, are `steps`: only the calls a request issues can fail for it
WorldsFor(steps) ==
    IF \E i \in 1..Len(steps) : steps[i] = "detect_sentiment"
    THEN {w \in AnalyzeWorlds :
             w.nlp.fails = "none" \/ \E i \in 1..Len(steps) : steps[i] = w.nlp.fails}
    ELSE IF \E i \in 1..Len(steps) : steps[i] = "scan" THEN ScanWorlds
    ELSE {CalmWorld}

NoResponse == [statusCode |-> 0, headers |-> EmptyDict, body |-> RawString("")]

-----------------------------------------------------------------------------
(* The system: requests arrive one at a time at any of the three handlers *)

Init ==
    /\ store = <<>>
    /\ now = 1
    /\ handler = "none"
    /\ event = EmptyDict
    /\ response = NoResponse
    /\ trace = <<>>
    /\ scan_limit = NoScan
    /\ world = CalmWorld

\* a request is served; the model stops at requests that would grow the table
\* beyond MaxStore items
Serve(name, ev, w, out) ==
    \E o \in {out} :
        /\ Len(o.store) > Len(store) => Len(o.store) <= MaxStore
        /\ handler' = name
        /\ event' = ev
        /\ world' = w
        /\ response' = o.response
        /\ trace' = o.trace
        /\ store' = o.store
        /\ scan_limit' = o.scan_limit
        /\ UNCHANGED now

\* time passes
Tick ==
    /\ now < MaxClock
    /\ now' = now + 1
    /\ UNCHANGED <<store, handler, event, response, trace, scan_limit, world>>

Analyze(ev, w) == analyze_lambda_handler(ev, w.nlp, w.put_ok, store, now)
Analytics(ev, w) == analytics_lambda_handler(ev, w.scan_ok, store, now)
UnifiedHandler(ev, w) ==
    unified_lambda_handler(ev, w.nlp, w.put_ok, w.scan_ok, store, now)

\* one invocation of the analyze_feedback lambda
AnalyzeFeedback ==
    \E ev \in AnalyzeEvents :
        \E w \in WorldsFor(Analyze(ev, CalmWorld).trace) :
            Serve("analyze", ev, w, Analyze(ev, w))

\* one invocation of the get_analytics lambda
GetAnalytics ==
    \E ev \in AnalyticsEvents :
        \E w \in WorldsFor(Analytics(ev, CalmWorld).trace) :
            Serve("analytics", ev, w, Analytics(ev, w))

\* one invocation of the unified handler
Unified ==
    \E ev \in UnifiedEvents :
        \E w \in WorldsFor(UnifiedHandler(ev, CalmWorld).trace) :
            Serve("unified", ev, w, UnifiedHandler(ev, w))

Next == Tick \/ AnalyzeFeedback \/ GetAnalytics \/ Unified

Spec == Init /\ [][Next]_vars

-----------------------------------------------------------------------------
(* The get_analytics lambda over a table that earlier requests and other   *)
(* writers have filled                                                     *)

Scores(p, n, u, m) ==
    [positive |-> Decimal(p), negative |-> Decimal(n), neutral |-> Decimal(u),
     mixed |-> Decimal(m)]

\* the items a table may hold, without their keys: a record of the analyze
\* handlers, and items that lack the optional attributes
StoredItems ==
    {[customer_id |-> "A", sentiment |-> "POSITIVE",
      sentiment_scores |-> Scores(9000, 500, 300, 200),
      metadata |-> [category |-> "product"]],
     [customer_id |-> "B", sentiment |-> "NEGATIVE",
      sentiment_scores |-> Scores(1000, 8000, 600, 400), metadata |-> EmptyDict],
     [sentiment |-> "NEUTRAL", sentiment_scores |-> Scores(3333, 0, 6667, 0)],
     [customer_id |-> "A", sentiment |-> "MIXED", metadata |-> [category |-> "service"]],
     [customer_id |-> "B", sentiment_scores |-> [positive |-> Decimal(1)]],
     [customer_id |-> "B", sentiment |-> "SURPRISED",
      sentiment_scores |-> Scores(2500, 2500, 2500, 2500),
      metadata |-> [category |-> "product"]]}

\* the tables of up to MaxItems items; the i-th item has the key FeedbackId(i)
Tables ==
    UNION {{[i \in 1..n |-> [feedback_id |-> FeedbackId(i)] @@ items[i]] :
               items \in [1..n -> StoredItems]} : n \in 0..MaxItems}

InitAnalytics ==
    /\ store \in Tables
    /\ now = 1
    /\ handler = "none"
    /\ event = EmptyDict
    /\ response = NoResponse
    /\ trace = <<>>
    /\ scan_limit = NoScan
    /\ world = CalmWorld

SpecAnalytics == InitAnalytics /\ [][GetAnalytics]_vars

-----------------------------------------------------------------------------
(* The get_analytics lambda over a table of many customers                 *)

CustomerIds == <<"A", "B", "C", "D", "E", "F", "G", "H", "I", "J", "K", "L", "M", "N">>

\* the record of a customer; "absent" stands for a record without customer_id
CustomerItem(c) ==
    IF c = "absent" THEN [sentiment |-> "NEUTRAL"]
    ELSE [customer_id |-> c, sentiment |-> "POSITIVE"]

\* the customers that come back after every customer has been seen once
Returning == {"absent", CustomerIds[1], CustomerIds[MaxCustomers]}

\* items in scan order, each with its key
Keyed(items) == [i \in 1..Len(items) |-> [feedback_id |-> FeedbackId(i)] @@ items[i]]

\* one record of each of the first n customers, then up to MaxRepeats records
\* of returning customers
CustomerTables ==
    {Keyed([i \in 1..n |-> CustomerItem(CustomerIds[i])]
           \o [i \in 1..Len(again) |-> CustomerItem(again[i])]) :
        n \in 0..MaxCustomers,
        again \in UNION {[1..k -> Returning] : k \in 0..MaxRepeats}}

InitCustomers ==
    /\ store \in CustomerTables
    /\ now = 1
    /\ handler = "none"
    /\ event = EmptyDict
    /\ response = NoResponse
    /\ trace = <<>>
    /\ scan_limit = NoScan
    /\ world = CalmWorld

SpecCustomers == InitCustomers /\ [][GetAnalytics]_vars

-----------------------------------------------------------------------------
(* Properties *)

InTrace(step) == \E i \in 1..Len(trace) : trace[i] = step

\* a request other than the CORS preflight was served
Requested == handler # "none" /\ Get(event, "httpMethod", "") # "OPTIONS"

\* the request carries a body that is a structure or a string that parses
Structured ==
    LET body == Get(event, "body", EmptyDict) IN
    ~IsNone(body) /\ (IsStr(body) => body.wellformed)

\* the request carries a body that is a string that does not parse
Unparseable ==
    LET body == Get(event, "body", EmptyDict) IN IsStr(body) /\ ~body.wellformed

\* the structure a Structured request carries
RequestBody ==
    LET body == Get(event, "body", EmptyDict) IN
    IF IsStr(body) THEN body.decodes_to ELSE body

RequestText == Get(RequestBody, "feedback", TextEmpty)

\* the text has no character that is not whitespace
Blank(text) == text.core = 0

\* the decoded body of the response
ResponseData == response.body.decodes_to

IsErrorResponse == response.body.wellformed /\ "error" \in DOMAIN ResponseData

\* the items the last scan returned, when it succeeded
Scanned == decimals_to_float(Take(store, scan_limit))

SentimentOf(item) == Get(item, "sentiment", "NEUTRAL")

CountOf(items, label) ==
    Cardinality({i \in 1..Len(items) : SentimentOf(items[i]) = label})

\* the analytics lambda issued a scan and the scan succeeded
ScanSucceeded == handler = "analytics" /\ InTrace("scan") /\ world.scan_ok

AllZero(map, keys) == DOMAIN map = keys /\ \A k \in keys : map[k] = 0

\* C1: for every record sequence, also one holding a record whose sentiment is
\* none of the four labels, the aggregation completes and counts the record:
\* the response of get_analytics has total_feedback = the number of records
\* scanned and sentiment_distribution maps each label met to its count.
C1_UnexpectedSentimentCounted ==
    ScanSucceeded =>
        /\ response.statusCode = 200
        /\ ResponseData.total_feedback = Len(Scanned)
        /\ \A i \in 1..Len(Scanned) :
              LET label == SentimentOf(Scanned[i]) IN
              /\ label \in DOMAIN ResponseData.sentiment_distribution
              /\ ResponseData.sentiment_distribution[label] = CountOf(Scanned, label)

\* the request of the analyze operation passes validation and every upstream
\* call it issues succeeds
AnalysisSucceeds ==
    /\ Requested /\ Structured
    /\ ~Blank(RequestText)
    /\ \/ /\ handler = "analyze"
          /\ len(RequestText) <= MAX_TEXT_LENGTH
          /\ world.nlp.fails = "none"
       \/ /\ handler = "unified"
          /\ Get(RequestBody, "operation", "analyze_feedback") = "analyze_feedback"
          /\ world.nlp.fails \in {"none", "detect_dominant_language"}

\* C2: in the analyze operation, when validation and all upstream calls
\* succeed, the response is 200 and carries the built feedback record whether
\* put_item succeeds or fails.
C2_StorageFailureNeverFailsAnalyze ==
    AnalysisSucceeds =>
        /\ response.statusCode = 200
        /\ ~IsErrorResponse
        /\ ResponseData.feedback_text = RequestText
        /\ ResponseData.customer_id = Get(RequestBody, "customer_id", "anonymous")
        /\ ResponseData.sentiment = world.nlp.sentiment_response.Sentiment
        /\ ResponseData.sentiment_scores.positive
              = world.nlp.sentiment_response.SentimentScore.Positive
        /\ DOMAIN ResponseData.metadata = DOMAIN Get(RequestBody, "metadata", EmptyDict)

C2_Witness ==
    /\ AnalysisSucceeds
    /\ handler = "analyze"
    /\ InTrace("put_item") /\ ~world.put_ok
    /\ store = <<>>
    /\ response.statusCode = 200

\* C3: in the analytics operation, when the scan fails the handler answers 200
\* with the empty analytics: total_feedback 0, the four sentiment counts 0, the
\* four averages 0, no category, no top customer, no recent feedback.
C3_ScanFailureGivesEmptyAnalytics ==
    (handler = "analytics" /\ InTrace("scan") /\ ~world.scan_ok) =>
        /\ response.statusCode = 200
        /\ ~IsErrorResponse
        /\ ResponseData.total_feedback = 0
        /\ AllZero(ResponseData.sentiment_distribution, SentimentLabels)
        /\ AllZero(ResponseData.average_sentiment_scores, ScoreKeys)
        /\ DOMAIN ResponseData.category_breakdown = {}
        /\ Len(ResponseData.top_customers) = 0
        /\ Len(ResponseData.recent_feedback) = 0

C3_Witness ==
    /\ handler = "analytics" /\ InTrace("scan") /\ ~world.scan_ok
    /\ Len(store) = MaxItems
    /\ response.statusCode = 200

\* C4: in the analyze operation, a request whose body is a string that does
\* not parse gets a 400 response with body {error: message}, and no upstream
\* call and no store write is made for it.
C4_MalformedBodyIs400 ==
    (handler = "analyze" /\ Requested /\ Unparseable) =>
        /\ response.statusCode = 400
        /\ IsErrorResponse
        /\ trace = <<"parse_request_body">>

\* C5 as stated: in the analytics operation, a request whose body is a string
\* that does not parse gets a 200 response that is an empty result.
C5_MalformedBodyGivesEmptyResult ==
    (handler = "analytics" /\ Requested /\ Unparseable) =>
        /\ response.statusCode = 200
        /\ ~IsErrorResponse
        /\ ResponseData.total_feedback = 0
        /\ Len(ResponseData.recent_feedback) = 0

\* C5 as amended: in the analytics operation, a request whose body is a string
\* that does not parse never gets an error response: the body counts as an
\* empty request, so the scan runs with the default limit and the response is
\* the 200 response an empty request gets, carrying the analytics of the
\* scanned items.
C5_MalformedBodyIsEmptyRequest ==
    (handler = "analytics" /\ Requested /\ Unparseable) =>
        /\ response.statusCode = 200
        /\ ~IsErrorResponse
        /\ trace = <<"parse_request_body", "scan">>
        /\ scan_limit = DEFAULT_LIMIT
        /\ response = Analytics([httpMethod |-> "POST", body |-> EmptyDict], world).response
        /\ (world.scan_ok /\ \A i \in 1..Len(Scanned) :
                                SentimentOf(Scanned[i]) \in SentimentLabels)
              => ResponseData.total_feedback = Len(Scanned)

C5_Witness ==
    /\ handler = "analytics" /\ Requested /\ Unparseable
    /\ world.scan_ok
    /\ response.statusCode = 200
    /\ ResponseData.total_feedback = MaxItems

\* C6: in every handler, a request whose httpMethod is OPTIONS gets status
\* 200, the fixed cross-origin headers and an empty body, whatever its body,
\* and nothing runs for it: no parsing, no validation, no upstream call, no
\* store write, no scan.
C6_OptionsShortCircuits ==
    (handler # "none" /\ Get(event, "httpMethod", "") = "OPTIONS") =>
        /\ response.statusCode = 200
        /\ response.headers = CorsHeaders("*")
        /\ response.body = RawString("")
        /\ trace = <<>>
        /\ scan_limit = NoScan

C6_Witness ==
    /\ handler = "analyze"
    /\ Get(event, "httpMethod", "") = "OPTIONS"
    /\ Unparseable
    /\ response.statusCode = 200

\* C7: the validator gives the empty-text error when the text is empty or has
\* only whitespace, else the too-long error when the text is longer than the
\* maximum, else succeeds (also at exactly the maximum), and on success the
\* untrimmed text is what is analysed, returned and stored.
C7_ValidatorContract ==
    (handler = "analyze" /\ Requested /\ Structured) =>
        IF len(RequestText) = 0 \/ Blank(RequestText)
        THEN /\ response.statusCode = 400
             /\ ResponseData.error.text = "Text cannot be empty"
             /\ trace = <<"parse_request_body", "validate_text_input">>
        ELSE IF len(RequestText) > MAX_TEXT_LENGTH
        THEN /\ response.statusCode = 400
             /\ ResponseData.error.text
                   = "Text exceeds maximum length of max_length characters"
             /\ trace = <<"parse_request_body", "validate_text_input">>
        ELSE /\ InTrace("detect_sentiment")
             /\ world.nlp.fails = "none" =>
                   /\ response.statusCode = 200
                   /\ ResponseData.feedback_text = RequestText
                   /\ world.put_ok =>
                         \E i \in 1..Len(store) : store[i].feedback_text = RequestText

C7_Witness ==
    /\ handler = "analyze" /\ Requested /\ Structured
    /\ len(RequestText) = MAX_TEXT_LENGTH
    /\ RequestText.lead > 0 /\ RequestText.trail > 0
    /\ response.statusCode = 200
    /\ \E i \in 1..Len(store) : store[i].feedback_text = RequestText

\* C8: every response of the analyze and analytics handlers, on every path,
\* carries the same four cross-origin headers.
C8_EveryResponseHasCorsHeaders ==
    handler \in {"analyze", "analytics"} =>
        /\ DOMAIN response.headers
              = {"Content-Type", "Access-Control-Allow-Origin",
                 "Access-Control-Allow-Headers", "Access-Control-Allow-Methods"}
        /\ response.headers = CorsHeaders(ALLOWED_ORIGINS)

C8_Witness ==
    /\ handler = "analytics"
    /\ response.statusCode = 500
    /\ "Access-Control-Allow-Origin" \in DOMAIN response.headers

\* C9: the aggregation of an empty record sequence gives total_feedback 0, the
\* four sentiment counts 0, the four averages 0, no category, no top customer
\* and no recent feedback, without a division error.
C9_EmptyAggregation ==
    (ScanSucceeded /\ Len(Scanned) = 0) =>
        /\ response.statusCode = 200
        /\ "total_retrieved" \in DOMAIN ResponseData
        /\ ResponseData.total_feedback = 0
        /\ AllZero(ResponseData.sentiment_distribution, SentimentLabels)
        /\ AllZero(ResponseData.average_sentiment_scores, ScoreKeys)
        /\ DOMAIN ResponseData.category_breakdown = {}
        /\ Len(ResponseData.top_customers) = 0
        /\ Len(ResponseData.recent_feedback) = 0

C9_Witness ==
    /\ ScanSucceeded /\ Len(Scanned) = 0
    /\ "total_retrieved" \in DOMAIN ResponseData
    /\ ResponseData.total_feedback = 0

\* every scanned item has a sentiment, one of the four labels
FixedLabelsOnly ==
    \A i \in 1..Len(Scanned) :
        /\ "sentiment" \in DOMAIN Scanned[i]
        /\ Scanned[i].sentiment \in SentimentLabels

\* p is num / den rounded to the nearest integer
Nearest(p, num, den) ==
    LET d == p * den - num IN 2 * (IF d < 0 THEN -d ELSE d) <= den

\* C10: for n > 0 records whose sentiments are among the four labels,
\* sentiment_distribution has exactly the four labels as keys, each mapped to
\* the number of records with that sentiment, the counts sum to
\* n = total_feedback, and sentiment_percentages maps each label to
\* 100 * count / n rounded to 2 decimal digits.
C10_DistributionAndPercentages ==
    (ScanSucceeded /\ Len(Scanned) > 0 /\ FixedLabelsOnly) =>
        LET n == Len(Scanned)
            dist == ResponseData.sentiment_distribution
            pct == ResponseData.sentiment_percentages
        IN /\ ResponseData.total_feedback = n
           /\ DOMAIN dist = SentimentLabels
           /\ \A label \in SentimentLabels : dist[label] = CountOf(Scanned, label)
           /\ dist["POSITIVE"] + dist["NEGATIVE"] + dist["NEUTRAL"] + dist["MIXED"] = n
           /\ DOMAIN pct = SentimentLabels
           /\ \A label \in SentimentLabels :
                 Nearest(pct[label], 100 * 100 * dist[label], n)

C10_Witness ==
    /\ ScanSucceeded /\ FixedLabelsOnly
    /\ Len(Scanned) = 3
    /\ ResponseData.sentiment_percentages["POSITIVE"] = 6667
    /\ ResponseData.sentiment_percentages["MIXED"] = 3333

\* no scanned item has a sentiment outside the four labels, so the loop of
\* calculate_analytics runs to its end
AggregationCompletes ==
    \A i \in 1..Len(Scanned) : SentimentOf(Scanned[i]) \in SentimentLabels

CustomerOf(item) ==
    IF "customer_id" \in DOMAIN item THEN item.customer_id ELSE "anonymous"

CustomersOf(items) == {CustomerOf(items[i]) : i \in 1..Len(items)}

RecordsOf(items, c) == Cardinality({i \in 1..Len(items) : CustomerOf(items[i]) = c})

FirstSeen(items, c) ==
    CHOOSE i \in 1..Len(items) :
        /\ CustomerOf(items[i]) = c
        /\ \A j \in 1..(i - 1) : CustomerOf(items[j]) # c

\* customer c ranks before customer d: more records, or as many and seen first
RanksBefore(items, c, d) ==
    \/ RecordsOf(items, c) > RecordsOf(items, d)
    \/ /\ RecordsOf(items, c) = RecordsOf(items, d)
       /\ FirstSeen(items, c) < FirstSeen(items, d)

\* C11: top_customers lists (customer_id, count) pairs, count being the number
\* of records of that customer (a record without customer_id counts for
\* "anonymous"), by count descending, equal counts in order of first
\* appearance, and holds the first 10 customers of that order at most.
C11_TopCustomers ==
    (ScanSucceeded /\ AggregationCompletes) =>
        LET top == ResponseData.top_customers
            listed == {top[i].customer_id : i \in 1..Len(top)}
        IN /\ Len(top) = Min(Cardinality(CustomersOf(Scanned)), 10)
           /\ \A i \in 1..Len(top) :
                 /\ DOMAIN top[i] = {"customer_id", "feedback_count"}
                 /\ top[i].customer_id \in CustomersOf(Scanned)
                 /\ top[i].feedback_count = RecordsOf(Scanned, top[i].customer_id)
           /\ \A i, j \in 1..Len(top) :
                 i < j => RanksBefore(Scanned, top[i].customer_id, top[j].customer_id)
           /\ \A c \in CustomersOf(Scanned) \ listed :
                 \A i \in 1..Len(top) : RanksBefore(Scanned, top[i].customer_id, c)

C11_Witness ==
    /\ ScanSucceeded /\ AggregationCompletes
    /\ Cardinality(CustomersOf(Scanned)) > 10
    /\ Len(ResponseData.top_customers) = 10
    /\ ResponseData.top_customers[1].customer_id = "anonymous"
    /\ ResponseData.top_customers[1].feedback_count = 2
    /\ ResponseData.top_customers[2].customer_id = "A"
    /\ ResponseData.top_customers[10].customer_id = "I"

CategoryOf(item) ==
    IF "metadata" \in DOMAIN item /\ "category" \in DOMAIN item.metadata
    THEN item.metadata.category
    ELSE "uncategorized"

\* the records counted in the label maps of the categories cats
RECURSIVE CountedIn(_, _)
CountedIn(breakdown, cats) ==
    IF cats = {} THEN 0
    ELSE LET c == CHOOSE x \in cats : TRUE IN
         breakdown[c]["POSITIVE"] + breakdown[c]["NEGATIVE"]
         + breakdown[c]["NEUTRAL"] + breakdown[c]["MIXED"]
         + CountedIn(breakdown, cats \ {c})

\* C12: category_breakdown maps each category met to a map of the four labels,
\* each label mapped to the number of records of that category and sentiment;
\* a record whose metadata has no category and a record without metadata both
\* count under "uncategorized"; the counts of all categories sum to the number
\* of records.
C12_CategoryBreakdown ==
    (ScanSucceeded /\ AggregationCompletes) =>
        LET breakdown == ResponseData.category_breakdown IN
        /\ DOMAIN breakdown = {CategoryOf(Scanned[i]) : i \in 1..Len(Scanned)}
        /\ \A c \in DOMAIN breakdown :
              /\ DOMAIN breakdown[c] = SentimentLabels
              /\ \A label \in SentimentLabels :
                    breakdown[c][label]
                      = Cardinality({i \in 1..Len(Scanned) :
                                        /\ CategoryOf(Scanned[i]) = c
                                        /\ SentimentOf(Scanned[i]) = label})
        /\ CountedIn(breakdown, DOMAIN breakdown) = Len(Scanned)

C12_Witness ==
    /\ ScanSucceeded /\ AggregationCompletes
    /\ Len(Scanned) = 3
    /\ \E i \in 1..Len(Scanned) : "metadata" \notin DOMAIN Scanned[i]
    /\ \E i \in 1..Len(Scanned) :
          "metadata" \in DOMAIN Scanned[i] /\ "category" \notin DOMAIN Scanned[i].metadata
    /\ DOMAIN ResponseData.category_breakdown = {"uncategorized", "product"}
    /\ ResponseData.category_breakdown["uncategorized"]["NEGATIVE"] = 1
    /\ ResponseData.category_breakdown["uncategorized"]["NEUTRAL"] = 1
    /\ ResponseData.category_breakdown["product"]["POSITIVE"] = 1

\* the score of one dimension of a record, 0 when the record has no
\* sentiment_scores or the map lacks the dimension
DimensionOf(item, key) ==
    IF "sentiment_scores" \in DOMAIN item /\ key \in DOMAIN item.sentiment_scores
    THEN item.sentiment_scores[key].val
    ELSE 0

RECURSIVE SumOfDimension(_, _)
SumOfDimension(items, key) ==
    IF Len(items) = 0 THEN 0
    ELSE DimensionOf(items[1], key) + SumOfDimension(Tail(items), key)

\* C13: for each of the four score dimensions, average_sentiment_scores is the
\* sum of the dimension over all records, a missing dimension or a missing
\* sentiment_scores map counting 0, divided by n and rounded to 4 decimal
\* digits; for n = 0 the four averages are 0.
C13_AverageScores ==
    (ScanSucceeded /\ AggregationCompletes) =>
        LET average == ResponseData.average_sentiment_scores
            n == Len(Scanned)
        IN /\ DOMAIN average = ScoreKeys
           /\ \A key \in ScoreKeys :
                 IF n = 0 THEN average[key] = 0
                 ELSE Nearest(average[key], SumOfDimension(Scanned, key), n)

C13_Witness ==
    /\ ScanSucceeded /\ AggregationCompletes
    /\ Len(Scanned) = 3
    /\ \E i \in 1..Len(Scanned) : "sentiment_scores" \notin DOMAIN Scanned[i]
    /\ \E i \in 1..Len(Scanned) :
          /\ "sentiment_scores" \in DOMAIN Scanned[i]
          /\ "negative" \notin DOMAIN Scanned[i].sentiment_scores
    /\ ResponseData.average_sentiment_scores["positive"] = 3000
    /\ ResponseData.average_sentiment_scores["negative"] = 167

NineFields ==
    {"total_feedback", "sentiment_distribution", "sentiment_percentages",
     "average_sentiment_scores", "category_breakdown", "top_customers",
     "recent_feedback", "timestamp", "total_retrieved"}

\* C15: every 200 response of the analytics operation, computed from a scan
\* that succeeded or produced by the fallback, has all nine fields:
\* total_feedback, sentiment_distribution, sentiment_percentages,
\* average_sentiment_scores, category_breakdown, top_customers,
\* recent_feedback, timestamp and total_retrieved.
C15_NineFieldsIn200 ==
    (handler = "analytics" /\ Requested /\ response.statusCode = 200) =>
        NineFields \subseteq DOMAIN ResponseData

\* the limit the request asks for: that of its body, 50 when the body gives
\* none or does not parse
RequestedLimit ==
    IF Unparseable THEN 50 ELSE Get(RequestBody, "limit", 50)

\* C16: for every analytics request, in the get_analytics lambda and in the
\* unified handler's get_analytics operation, the scan is issued with the
\* requested limit (50 when none is given) capped at the maximum 1000, so
\* never with a limit above the maximum.
C16_ScanLimitCapped ==
    (handler \in {"analytics", "unified"} /\ InTrace("scan")) =>
        /\ scan_limit = Min(RequestedLimit, 1000)
        /\ scan_limit <= 1000

\* kept is the first min(k, 5) items of the upstream list of length k, in the
\* upstream order, each with its text and score
FirstFiveOf(kept, upstream) ==
    /\ Len(kept) = Min(Len(upstream), 5)
    /\ \A i \in 1..Len(kept) :
          /\ kept[i].text = upstream[i].Text
          /\ kept[i].score.val = upstream[i].Score.val

\* C17: the key phrases and the entities of a feedback record, returned and
\* stored, are the first min(k, 5) items of the upstream list of length k in
\* upstream order; a list shorter than 5 is kept whole.
C17_TruncatedInUpstreamOrder ==
    AnalysisSucceeds =>
        LET phrases == world.nlp.key_phrases_response.KeyPhrases
            entities == world.nlp.entities_response.Entities
        IN /\ FirstFiveOf(ResponseData.key_phrases, phrases)
           /\ FirstFiveOf(ResponseData.entities, entities)
           /\ \A i \in 1..Len(ResponseData.entities) :
                 ResponseData.entities[i].type = entities[i].Type
           /\ world.put_ok =>
                 \E n \in 1..Len(store) :
                     /\ store[n].feedback_id = ResponseData.feedback_id
                     /\ FirstFiveOf(store[n].key_phrases, phrases)
                     /\ FirstFiveOf(store[n].entities, entities)

C17_Witness ==
    /\ AnalysisSucceeds /\ handler = "analyze" /\ world.put_ok
    /\ Len(world.nlp.key_phrases_response.KeyPhrases) = 2
    /\ Len(ResponseData.key_phrases) = 2
    /\ Len(world.nlp.entities_response.Entities) = 6
    /\ Len(ResponseData.entities) = 5
    /\ ResponseData.entities[1].text = 2
    /\ ResponseData.entities[2].text = 6
    /\ Len(store) = 1 /\ Len(store[1].entities) = 5

\* the request of the analyze operation passes validation and one of the
\* upstream calls its handler issues raises
UpstreamCallFails ==
    /\ Requested /\ Structured
    /\ ~Blank(RequestText)
    /\ \/ /\ handler = "analyze"
          /\ len(RequestText) <= MAX_TEXT_LENGTH
          /\ world.nlp.fails
                \in {"detect_sentiment", "detect_key_phrases", "detect_entities",
                     "detect_dominant_language"}
       \/ /\ handler = "unified"
          /\ Get(RequestBody, "operation", "analyze_feedback") = "analyze_feedback"
          /\ world.nlp.fails
                \in {"detect_sentiment", "detect_key_phrases", "detect_entities"}

\* what C18 says of the state after a request that an upstream failure aborts
AbortedByUpstream ==
    /\ response.statusCode = 500
    /\ response.body.wellformed
    /\ DOMAIN ResponseData = {"error"}
    /\ trace[Len(trace)] = world.nlp.fails
    /\ \A i, j \in 1..Len(trace) : trace[i] = trace[j] => i = j
    /\ ~InTrace("put_item")

\* C18: in the analyze operation, when an upstream call fails the response is
\* 500 with body {error: message}; the failing call is the last step of the
\* request, so no later upstream call is made and no call is issued twice,
\* and the table is left as it was: no record, full or partial, is written.
C18_UpstreamFailureAborts ==
    [][UpstreamCallFails' => (AbortedByUpstream' /\ store' = store)]_vars

C18_Witness ==
    /\ UpstreamCallFails /\ handler = "analyze"
    /\ world.nlp.fails = "detect_key_phrases"
    /\ response.statusCode = 500
    /\ trace = <<"parse_request_body", "validate_text_input", "detect_sentiment",
                 "detect_key_phrases">>
    /\ store = <<>>

\* the request of the analyze operation carries a feedback that is absent,
\* empty, whitespace-only or longer than the maximum
FailsValidation ==
    /\ Requested /\ Structured
    /\ \/ handler = "analyze"
       \/ /\ handler = "unified"
          /\ Get(RequestBody, "operation", "analyze_feedback") = "analyze_feedback"
    /\ \/ "feedback" \notin DOMAIN RequestBody
       \/ len(RequestText) = 0
       \/ Blank(RequestText)
       \/ len(RequestText) > 5000

\* C19: in the analyze operation, a request whose feedback fails validation
\* gets a 400 response with body {error: message}, and no upstream call and no
\* store write is made for it.
C19_ValidationPrecedesEffects ==
    FailsValidation =>
        /\ response.statusCode = 400
        /\ response.body.wellformed
        /\ DOMAIN ResponseData = {"error"}
        /\ \A i \in 1..Len(trace) :
              trace[i] \in {"parse_request_body", "validate_text_input"}

\* C20: a record written to the table is never replaced, modified or removed
\* by a later request, also when two requests take their feedback_id in the
\* same millisecond: every record of the table is still there, unchanged and
\* at its place, after every step.
C20_StoredRecordsImmutable ==
    [][\A i \in 1..Len(store) : i <= Len(store') /\ store'[i] = store[i]]_vars

\* the response the same request gets when its scan fails
FallbackData ==
    Analytics(event, World(world.nlp, world.put_ok, FALSE)).response.body.decodes_to

SameMap(a, b) == DOMAIN a = DOMAIN b /\ \A k \in DOMAIN a : a[k] = b[k]

\* C21: for n = 0 the analytics operation follows one convention for
\* sentiment_percentages: the value returned when the scan succeeds with no
\* record is the value the fallback returns when the scan fails.
C21_OneConventionForNoRecords ==
    (ScanSucceeded /\ Len(Scanned) = 0) =>
        /\ response.statusCode = 200
        /\ "sentiment_percentages" \in DOMAIN ResponseData
        /\ "sentiment_percentages" \in DOMAIN FallbackData
        /\ SameMap(ResponseData.sentiment_percentages,
                   FallbackData.sentiment_percentages)

====
